---- MODULE Spec2Model ----
(***************************************************************************)
(* Distributed generational checkpointing (chainermn distributed_cpr).     *)
(* One _DistCPRExtension per MPI rank; the ranks meet in the gather/bcast  *)
(* collectives of _sync_file_list.  File names are sequences of            *)
(* one-character strings so that formatting and parsing are real work.     *)
(***************************************************************************)
EXTENDS Integers, Sequences, FiniteSets, TLC

\* ------------------------------------------------------------ bounds
NRanks == 2          \* comm.size
MaxDiskIter == 2     \* newest iteration a directory may hold at startup
MaxCpInterval == 2   \* cp_interval ranges over 1..MaxCpInterval
MaxIter == 8         \* the trainer stops after this iteration
MaxFaults == 1       \* failures in one job: a crash, a failed write or os.remove
MaxNameLen == 2      \* length of the run names given to the file name codec
MaxCodecInt == 11    \* largest rank and iteration given to the file name codec

\* ------------------------------------------------------------ constants
Slack == 5           \* checkpoint(): len(self.files) - self.cp_interval > 5
DefaultGc == 5       \* distributed_cpr(..., gc_interval=5, ...)

Ranks == 0 .. (NRanks - 1)
RunName == <<"r">>       \* self.name
OtherRun == <<"q">>      \* the name of some other run
GcChoices == {1, DefaultGc}   \* the smallest gc_interval allowed, the default
Digits == <<"0", "1", "2", "3", "4", "5", "6", "7", "8", "9">>

\* ------------------------------------------------------------ file names
\* '{:d}'.format(n)
RECURSIVE FormatD(_)
FormatD(n) ==
  IF n < 0 THEN <<"-">> \o FormatD(-n)
  ELSE IF n < 10 THEN <<Digits[n + 1]>>
  ELSE FormatD(n \div 10) \o <<Digits[(n % 10) + 1]>>

\* a plausible slip: the fields written in the wrong order
FilenameSwapped(name, rank, iteration) ==
  name \o <<".">> \o FormatD(iteration) \o <<".">> \o FormatD(rank)

\* _filename: '{:s}.{:d}.{:d}'.format(self.name, self.comm.rank, iteration)
Filename(name, rank, iteration) ==
  name \o <<".">> \o FormatD(rank) \o <<".">> \o FormatD(iteration)

\* a plausible slip: every rank takes over the names of rank 0
FilenamesOfRoot(name, rank, iterations) ==
  [k \in 1 .. Len(iterations) |-> Filename(name, 0, iterations[k])]

\* _filenames
Filenames(name, rank, iterations) ==
  [k \in 1 .. Len(iterations) |-> Filename(name, rank, iterations[k])]

\* the positions of the separators of s, with the two ends of s
Cuts(s) == {0, Len(s) + 1} \cup {k \in 1 .. Len(s) : s[k] = "."}

\* the j-th of them from the left
NthCut(s, j) ==
  CHOOSE c \in Cuts(s) : Cardinality({d \in Cuts(s) : d < c}) = j - 1

\* str.split('.'): what lies between one separator and the next
Split(s) ==
  [j \in 1 .. (Cardinality(Cuts(s)) - 1) |->
     SubSeq(s, NthCut(s, j) + 1, NthCut(s, j + 1) - 1)]

IsDigit(c) == \E d \in 1 .. 10 : Digits[d] = c
DigitVal(c) == (CHOOSE d \in 1 .. 10 : Digits[d] = c) - 1

RECURSIVE DigitsVal(_)
DigitsVal(s) ==
  IF Len(s) = 0 THEN 0
  ELSE 10 * DigitsVal(SubSeq(s, 1, Len(s) - 1)) + DigitVal(s[Len(s)])

\* int(s) succeeds: an optional sign, then one or more digits
IntOk(s) ==
  LET body == IF Len(s) > 0 /\ s[1] \in {"-", "+"} THEN Tail(s) ELSE s
  IN Len(body) > 0 /\ \A k \in 1 .. Len(body) : IsDigit(body[k])

\* int(s)
IntVal(s) ==
  IF s[1] = "-" THEN 0 - DigitsVal(Tail(s))
  ELSE IF s[1] = "+" THEN DigitsVal(Tail(s))
  ELSE DigitsVal(s)

NoneT == [kind |-> "None", name |-> <<>>, rank |-> 0, iter |-> 0]
ValueErrorT == [kind |-> "ValueError", name |-> <<>>, rank |-> 0, iter |-> 0]

\* a plausible slip: the run name is not compared
ParseFilenameAnyRun(selfname, filename) ==
  LET tpl == Split(filename) IN
  IF Len(tpl) # 3 THEN NoneT
  ELSE IF ~(IntOk(tpl[2]) /\ IntOk(tpl[3])) THEN ValueErrorT
  ELSE [kind |-> "tuple", name |-> selfname,
        rank |-> IntVal(tpl[2]), iter |-> IntVal(tpl[3])]

\* _parse_filename: None, a (name, rank, iter) tuple, or int() raising
ParseFilename(selfname, filename) ==
  LET tpl == Split(filename) IN
  IF Len(tpl) # 3 THEN NoneT
  ELSE IF tpl[1] # selfname THEN NoneT
  ELSE IF ~(IntOk(tpl[2]) /\ IntOk(tpl[3])) THEN ValueErrorT
  ELSE [kind |-> "tuple", name |-> tpl[1],
        rank |-> IntVal(tpl[2]), iter |-> IntVal(tpl[3])]

\* _parse_filenames
ParseFilenames(selfname, filenames) ==
  [k \in 1 .. Len(filenames) |-> ParseFilename(selfname, filenames[k])]

\* tempfile.mkstemp(prefix='tmp-' + filename, dir=path): prefix + random tail
TmpName(filename, tail) == <<"t", "m", "p", "-">> \o filename \o tail
TmpTails == <<<<"x">>, <<"7">>, <<"x", "7">>>>

\* mkstemp returns a name that is not in the directory yet; which of the
\* unused names it is changes nothing but the name: the first one is taken
FreshTmp(filename, names) ==
  LET k == CHOOSE j \in 1 .. Len(TmpTails) :
             /\ TmpName(filename, TmpTails[j]) \notin names
             /\ \A m \in 1 .. (j - 1) : TmpName(filename, TmpTails[m]) \in names
  IN TmpName(filename, TmpTails[k])


\* ------------------------------------------------------------ helpers
Range(s) == {s[k] : k \in 1 .. Len(s)}

\* list(set).sort(): the members in ascending order, the k-th being the
\* one with k - 1 members below it
SortAsc(S) ==
  [k \in 1 .. Cardinality(S) |->
     CHOOSE x \in S : Cardinality({y \in S : y < x}) = k - 1]

\* max(iters)
SeqMax(s) == CHOOSE x \in Range(s) : \A y \in Range(s) : y <= x

\* a plausible slip: iters0[:cp_interval], the oldest instead of the newest
SliceFirst(s, n) == IF n >= Len(s) THEN s ELSE SubSeq(s, 1, n)

\* a plausible slip: the window is one generation short
SliceShort(s, n) ==
  IF n - 1 >= Len(s) THEN s ELSE SubSeq(s, Len(s) - n + 2, Len(s))

\* iters0[-n:] for n > 0
SliceLast(s, n) == IF n >= Len(s) THEN s ELSE SubSeq(s, Len(s) - n + 1, Len(s))

\* set([i for _, _, i in self._parse_filenames(files)])
ItersOf(selfname, filenames) ==
  {ParseFilename(selfname, filenames[k]).iter : k \in 1 .. Len(filenames)}

\* unpacking "_, _, i" needs a tuple: None or a failed int() raises instead
ItersRaise(selfname, filenames) ==
  \E k \in 1 .. Len(filenames) :
     ParseFilename(selfname, filenames[k]).kind # "tuple"

\* a plausible slip: iters0 |= iters
RECURSIVE UniteFrom(_, _, _, _)
UniteFrom(selfname, file_lists, k, iters0) ==
  IF k > Len(file_lists) THEN iters0
  ELSE UniteFrom(selfname, file_lists, k + 1,
                 iters0 \cup ItersOf(selfname, file_lists[k]))

\* for files in file_lists[1:]: iters0 &= iters
RECURSIVE IntersectFrom(_, _, _, _)
IntersectFrom(selfname, file_lists, k, iters0) ==
  IF k > Len(file_lists) THEN iters0
  ELSE IntersectFrom(selfname, file_lists, k + 1,
                     iters0 \cap ItersOf(selfname, file_lists[k]))

\* rank 0 of _sync_file_list, lines 175-184: the list that is broadcast.
\* Each statement's result is bound once, as the code binds iters0
Agreement(selfname, file_lists, cp) ==
  CHOOSE kept \in
    {SliceLast(sorted, cp) :
       sorted \in {SortAsc(common) :
          common \in {IntersectFrom(selfname, file_lists, 2,
                                    ItersOf(selfname, file_lists[1]))}}} : TRUE

\* the injective sequences over S: the orders os.listdir may return
Orders(S) ==
  {s \in [1 .. Cardinality(S) -> S] :
     \A a, b \in 1 .. Cardinality(S) : a # b => s[a] # s[b]}


\* ------------------------------------------------------------ state
VARIABLES
  cp_interval,      \* self.cp_interval, the same on every rank
  gc_interval,      \* self.gc_interval, the same on every rank
  resume_first,     \* the driver calls maybe_resume before training
  optimizer,        \* maybe_resume is given a consistency handle
  path,             \* self.path per rank: "None" or "out"
  has_dir,          \* the checkpoint directory of a rank exists
  disk,             \* per rank: file name -> <<content kind, saved iteration>>
  files,            \* self.files per rank
  pc,               \* where each rank is
  iteration,        \* the target's state: trainer.updater.iteration
  needs_broadcast,  \* the attribute of each rank's optimizer
  tmppath,          \* _save: the temporary file being written
  gathered,         \* gather: what each rank has sent to rank 0
  inbox,            \* bcast: what rank 0 has sent and a rank not yet received
  file_lists,       \* what the latest gather returned on rank 0
  iters0,           \* what rank 0 broadcast last
  rounds,           \* rounds with remove_remainder each rank has completed
  finalized,        \* finalize calls made on each rank
  faults,           \* failures so far
  arg_name,         \* codec: self.name of the controller under test
  arg_rank,         \* codec: its comm.rank
  arg_iteration,    \* codec: the iteration passed to _filename
  formatted,        \* codec: what _filename returned
  parsed,           \* codec: what _parse_filename returned for it
  codec_pc          \* codec: "args", "formatted" or "parsed"

vars == <<cp_interval, gc_interval, resume_first, optimizer, path, has_dir, disk, files, pc,
          iteration, needs_broadcast, tmppath, gathered, inbox, file_lists,
          iters0, rounds, finalized, faults, arg_name, arg_rank,
          arg_iteration, formatted, parsed, codec_pc>>

\* the state of the controllers of a job
job == <<cp_interval, gc_interval, resume_first, optimizer, path, has_dir,
         disk, files, pc, iteration, needs_broadcast, tmppath, gathered, inbox,
         file_lists, iters0, rounds, finalized, faults>>

\* the state of a file name codec exercised on its own
codec == <<arg_name, arg_rank, arg_iteration, formatted, parsed, codec_pc>>

config == <<cp_interval, gc_interval, resume_first, optimizer>>
comm == <<gathered, inbox, file_lists, iters0>>

\* ------------------------------------------------------------ directories
\* the directory without some names
Without(d, names) == [f \in (DOMAIN d) \ names |-> d[f]]

\* the directory with name f holding content c (created or replaced)
With(d, f, c) == [g \in (DOMAIN d) \cup {f} |-> IF g = f THEN c ELSE d[g]]

\* what earlier executions may have left next to a rank's own snapshots:
\* another run's file, another rank's file, temporary files of crashed writes
Foreign(r) ==
  { Filename(OtherRun, r, MaxDiskIter),
    Filename(RunName, r + 1, MaxDiskIter),
    TmpName(Filename(RunName, r, MaxDiskIter), <<"x">>),
    TmpName(Filename(RunName, r, 1), <<"7">>) }

\* a directory holding complete snapshots of rank r for the iterations own
StartDir(r, own) ==
  [f \in Foreign(r) \cup {Filename(RunName, r, i) : i \in own} |->
     IF f \in Foreign(r)
     THEN IF f[1] = "t" THEN <<"partial", 0>> ELSE <<"old", MaxDiskIter>>
     ELSE <<"old", ParseFilename(RunName, f).iter>>]

TypeOK ==
  /\ cp_interval \in 1 .. MaxCpInterval
  /\ gc_interval \in GcChoices
  /\ resume_first \in BOOLEAN /\ optimizer \in BOOLEAN
  /\ path \in [Ranks -> {"None", "out"}]
  /\ has_dir \in [Ranks -> BOOLEAN]
  /\ DOMAIN disk = Ranks /\ DOMAIN files = Ranks
  /\ iteration \in [Ranks -> 0 .. MaxIter]
  /\ needs_broadcast \in [Ranks -> BOOLEAN]
  /\ finalized \in [Ranks -> 0 .. 2]
  /\ faults \in 0 .. MaxFaults

\* no codec call is under way
CodecParked ==
  /\ arg_name = RunName /\ arg_rank = 0 /\ arg_iteration = 0
  /\ formatted = <<>> /\ parsed = NoneT /\ codec_pc = "args"

\* the state after distributed_cpr(name, comm, cp_interval, gc_interval, path)
\* on every rank; __init__ creates the directory when a path is given
NewJob(cps, gcs, plans, handles, givens, dirs) ==
  /\ cp_interval \in cps
  /\ gc_interval \in gcs
  /\ resume_first \in plans
  /\ optimizer \in handles
  /\ \E given \in givens, d \in dirs :
       /\ path = [r \in Ranks |-> IF given THEN "out" ELSE "None"]
       /\ has_dir = [r \in Ranks |-> given \/ d[r] # {0}]
       /\ disk = [r \in Ranks |->
                    IF d[r] = {0} THEN <<>> ELSE StartDir(r, d[r])]
  /\ files = [r \in Ranks |-> <<>>]
  /\ pc = [r \in Ranks |-> "new"]
  /\ iteration = [r \in Ranks |-> 0]
  /\ needs_broadcast = [r \in Ranks |-> TRUE]
  /\ tmppath = [r \in Ranks |-> <<>>]
  /\ gathered = [r \in Ranks |-> <<>>]
  /\ inbox = [r \in Ranks |-> <<>>]
  /\ file_lists = <<>>
  /\ iters0 = <<>>
  /\ rounds = [r \in Ranks |-> 0]
  /\ finalized = [r \in Ranks |-> 0]
  /\ faults = 0

InitWith(cps, gcs, plans, handles, givens, dirs) ==
  NewJob(cps, gcs, plans, handles, givens, dirs) /\ CodecParked

\* ------------------------------------------------------------ the codec alone
\* run names: the strings of up to MaxNameLen characters, '.' among them
NameChars == {"r", "7", "."}
RECURSIVE NamesOfLen(_)
NamesOfLen(n) ==
  IF n = 0 THEN {<<>>}
  ELSE {Append(w, c) : w \in NamesOfLen(n - 1), c \in NameChars}
Names == UNION {NamesOfLen(n) : n \in 0 .. MaxNameLen}

\* a controller named arg_name on rank arg_rank, about to name a snapshot
InitCodec ==
  /\ NewJob({1}, {DefaultGc}, {FALSE}, {FALSE}, {FALSE}, {[r \in Ranks |-> {0}]})
  /\ arg_name \in Names
  /\ arg_rank \in 0 .. MaxCodecInt
  /\ arg_iteration \in 0 .. MaxCodecInt
  /\ formatted = <<>> /\ parsed = NoneT /\ codec_pc = "args"

\* self._filename(iteration)
CallFilename ==
  /\ codec_pc = "args"
  /\ formatted' = Filename(arg_name, arg_rank, arg_iteration)
  /\ codec_pc' = "formatted"
  /\ UNCHANGED <<job, arg_name, arg_rank, arg_iteration, parsed>>

\* self._parse_filename of that name on the same controller
CallParseFilename ==
  /\ codec_pc = "formatted"
  /\ parsed' = ParseFilename(arg_name, formatted)
  /\ codec_pc' = "parsed"
  /\ UNCHANGED <<job, arg_name, arg_rank, arg_iteration, formatted>>

NextCodec == CallFilename \/ CallParseFilename

CodecSpec == InitCodec /\ [][NextCodec]_vars

\* per rank: {0} for no directory (or an empty one), else the iterations held
DiskChoices == {{0}} \cup SUBSET (1 .. MaxDiskIter)


\* ------------------------------------------------------------ _sync_file_list
\* the names of the directory that parse as a snapshot of this run and rank
OwnOnDisk(r) ==
  IF has_dir[r]
  THEN {f \in DOMAIN disk[r] :
          LET t == ParseFilename(RunName, f)
          IN t.kind = "tuple" /\ t.name = RunName /\ t.rank = r}
  ELSE {}

\* line 166 on a rank: its list goes to rank 0
Deposit(r, fs) == gathered' = [gathered EXCEPT ![r] = <<fs>>]

\* line 166 on rank 0 returns once every rank has sent
GatherDone == \A q \in Ranks : gathered[q] # <<>>
Gathered == [k \in 1 .. NRanks |-> gathered[k - 1][1]]

\* a plausible slip: the other ranks get the list without its oldest entry
BroadcastShort(agreed) ==
  /\ file_lists' = Gathered
  /\ iters0' = agreed
  /\ gathered' = [q \in Ranks |-> <<>>]
  /\ inbox' = [q \in Ranks |->
                 IF q = 0 THEN <<>>
                 ELSE IF agreed = <<>> THEN <<agreed>> ELSE <<Tail(agreed)>>]

\* lines 175-189 on rank 0: intersect, sort, cut, broadcast
Broadcast(agreed) ==
  /\ file_lists' = Gathered
  /\ iters0' = agreed
  /\ gathered' = [q \in Ranks |-> <<>>]
  /\ inbox' = [q \in Ranks |-> IF q = 0 THEN <<>> ELSE <<agreed>>]

\* line 189 on another rank returns what rank 0 sent
Receive(r) ==
  /\ inbox' = [inbox EXCEPT ![r] = <<>>]
  /\ UNCHANGED <<gathered, file_lists, iters0>>

\* a plausible slip: everything tracked is removed, kept generations too
Files2RemoveAll(old, new) == Range(old)

\* line 193: set(self.files) - set(files)
Files2Remove(old, new) == Range(old) \ Range(new)

\* a plausible slip: the remainder is removed whatever the caller asked for
RemainderAlways(remove_remainder, old, new) == Files2Remove(old, new)

\* lines 192-193: what the round passes to os.remove
Remainder(remove_remainder, old, new) ==
  IF remove_remainder THEN Files2Remove(old, new) ELSE {}

\* lines 194-198 and 153-158: os.remove on each name, failures swallowed;
\* a file that is there may fail to go (at most MaxFaults times in a run)
RemoveAll(r, names) ==
  \E stuck \in SUBSET (names \cap DOMAIN disk[r]) :
     /\ Cardinality(stuck) <= MaxFaults - faults
     /\ faults' = faults + Cardinality(stuck)
     /\ disk' = [disk EXCEPT ![r] = Without(disk[r], names \ stuck)]

\* lines 190-200 of a round called by checkpoint (remove_remainder=True)
FinishPruning(r, agreed) ==
  LET new == Filenames(RunName, r, agreed) IN
  /\ RemoveAll(r, Remainder(TRUE, files[r], new))
  /\ files' = [files EXCEPT ![r] = new]
  /\ rounds' = [rounds EXCEPT ![r] = @ + 1]
  /\ pc' = [pc EXCEPT ![r] = "idle"]
  /\ UNCHANGED <<config, codec, path, has_dir, iteration, needs_broadcast, tmppath,
                 finalized>>

\* _load: load_npz needs the file, whole
Loadable(r, f) ==
  has_dir[r] /\ f \in DOMAIN disk[r] /\ disk[r][f][1] # "partial"

\* a plausible slip: when the newest agreed snapshot does not load, the
\* newest one that does is taken
LoadNameFallback(r, iters) ==
  LET ok == {i \in Range(iters) : Loadable(r, Filename(RunName, r, i))}
  IN IF ok = {} THEN Filename(RunName, r, SeqMax(iters))
     ELSE Filename(RunName, r, SeqMax(SortAsc(ok)))

\* lines 253-260: the name handed to _load, that of the greatest iteration
LoadName(r, iters) == Filename(RunName, r, SeqMax(iters))

\* a plausible slip: the attribute is set whether or not anything was loaded
SetsFlagAlways(r, new) == optimizer

\* a plausible slip: only rank 0 sets the attribute
SetsFlagRoot(r, new) == Len(new) > 0 /\ optimizer /\ r = 0

\* a plausible slip: the attribute is set only on a rank that dropped nothing
SetsFlagIfAllKept(r, new) ==
  Len(new) > 0 /\ optimizer /\ OwnOnDisk(r) \subseteq Range(new)

\* lines 253 and 262: the attribute is set after a load, when a handle is given
SetsFlag(r, new) == Len(new) > 0 /\ optimizer

\* lines 190-200 (remove_remainder=False), then lines 252-268 of maybe_resume
FinishResume(r, agreed) ==
  \E new \in {Filenames(RunName, r, agreed)} :
  \E iters \in {[k \in 1 .. Len(new) |->
                   ParseFilename(RunName, new[k]).iter]} :
  \E f \in {IF Len(iters) > 0 THEN LoadName(r, iters) ELSE <<>>} :
  /\ disk' = [disk EXCEPT ![r] =
                Without(disk[r], Remainder(FALSE, files[r], new))]
  /\ files' = [files EXCEPT ![r] = new]
  /\ IF Len(iters) > 0 /\ ~Loadable(r, f)
     THEN /\ pc' = [pc EXCEPT ![r] = "raised"]
          /\ UNCHANGED <<iteration, needs_broadcast>>
     ELSE /\ pc' = [pc EXCEPT ![r] = "idle"]
          /\ iteration' = IF Len(iters) > 0
                          THEN [iteration EXCEPT ![r] = disk[r][f][2]]
                          ELSE iteration
          /\ needs_broadcast' = IF SetsFlag(r, new)
                                THEN [needs_broadcast EXCEPT ![r] = FALSE]
                                ELSE needs_broadcast
  /\ UNCHANGED <<config, codec, path, has_dir, tmppath, rounds, finalized,
                 faults>>

\* ------------------------------------------------------------ maybe_resume
\* a plausible slip: the rank field of a name is not compared
ListedAnyRank(r) ==
  IF has_dir[r]
  THEN {f \in DOMAIN disk[r] : ParseFilename(RunName, f).kind = "tuple"}
  ELSE {}

\* lines 236-245: the names listed that are of this run and rank
Listed(r) == OwnOnDisk(r)

\* lines 229-249 up to the gather: set the path, list the directory, keep
\* this run's and rank's iterations, rebuild self.files, send it to rank 0
ResumeBegin(r) ==
  /\ pc[r] = "new" /\ resume_first
  /\ path' = [path EXCEPT ![r] = "out"]
  /\ IF has_dir[r] /\ \E f \in DOMAIN disk[r] :
                         ParseFilename(RunName, f).kind = "ValueError"
     THEN /\ pc' = [pc EXCEPT ![r] = "raised"]
          /\ UNCHANGED <<files, comm>>
     ELSE \E order \in Orders(Listed(r)) :
            LET local_iters == [k \in 1 .. Len(order) |->
                                  ParseFilename(RunName, order[k]).iter]
                fs == Filenames(RunName, r, local_iters)
            IN /\ files' = [files EXCEPT ![r] = fs]
               /\ Deposit(r, fs)
               /\ pc' = [pc EXCEPT ![r] = "resume_sync"]
               /\ UNCHANGED <<inbox, file_lists, iters0>>
  /\ UNCHANGED <<config, codec, has_dir, disk, iteration, needs_broadcast, tmppath,
                 rounds, finalized, faults>>

\* rank 0: the gather returns, lines 168-189, then the rest of maybe_resume
ResumeRoot ==
  /\ pc[0] = "resume_sync" /\ GatherDone
  /\ IF \E k \in 1 .. NRanks : ItersRaise(RunName, Gathered[k])
     THEN /\ pc' = [pc EXCEPT ![0] = "raised"]
          /\ gathered' = [q \in Ranks |-> <<>>]
          /\ UNCHANGED <<config, codec, path, has_dir, disk, files, iteration,
                         needs_broadcast, tmppath, inbox, file_lists, iters0,
                         rounds, finalized, faults>>
     ELSE \E agreed \in {Agreement(RunName, Gathered, cp_interval)} :
            Broadcast(agreed) /\ FinishResume(0, agreed)

\* another rank: the bcast returns, then the rest of maybe_resume
ResumeRecv(r) ==
  /\ r # 0 /\ pc[r] = "resume_sync" /\ inbox[r] # <<>>
  /\ Receive(r)
  /\ FinishResume(r, inbox[r][1])

NextResume ==
  \/ \E r \in Ranks : ResumeBegin(r)
  \/ ResumeRoot
  \/ \E r \in Ranks : ResumeRecv(r)

InitResume ==
  InitWith(1 .. MaxCpInterval, {DefaultGc}, {TRUE}, BOOLEAN, {FALSE},
           [Ranks -> DiskChoices])

\* every rank calls maybe_resume, on any directory contents
ResumeSpec == InitResume /\ [][NextResume]_vars


\* ------------------------------------------------------------ stray files
\* names that are not '<name>.<rank>.<iteration>' of this run: two fields,
\* four fields, another run's name with fields that are no numbers, and this
\* run's name with an iteration or a rank that is no number
TwoFields == RunName \o <<".", "1">>
FourFields(r) == Filename(RunName, r, 1) \o <<".", "b">>
OtherRunWords == OtherRun \o <<".", "x", ".", "y">>
BadIteration(r) == RunName \o <<".">> \o FormatD(r) \o <<".", "x">>
BadRank == RunName \o <<".", "x", ".", "1">>
Strays(r) == {TwoFields, FourFields(r), OtherRunWords, BadIteration(r), BadRank}

\* which rank's directory holds which stray file; <<0, <<>>>> for none
StrayChoices ==
  {<<0, <<>>>>} \cup UNION {{<<r, f>> : f \in Strays(r)} : r \in Ranks}

\* per rank: no directory, or snapshots of the oldest and newest iteration
DirtyChoices == {{0}, {1}, {MaxDiskIter}, {1, MaxDiskIter}}

\* the directory of rank r: its snapshots and leftovers, and the stray file
DirtyDir(r, own, stray) ==
  LET d == IF own = {0} THEN <<>> ELSE StartDir(r, own)
  IN IF stray[2] # <<>> /\ stray[1] = r
     THEN With(d, stray[2], <<"old", 0>>)
     ELSE d

\* every rank is constructed without a path; the directories exist already
InitDirty ==
  /\ cp_interval \in 1 .. MaxCpInterval
  /\ gc_interval = DefaultGc
  /\ resume_first = TRUE
  /\ optimizer = TRUE
  /\ \E d \in [Ranks -> DirtyChoices], stray \in StrayChoices :
       /\ disk = [r \in Ranks |-> DirtyDir(r, d[r], stray)]
       /\ has_dir = [r \in Ranks |->
                       d[r] # {0} \/ (stray[2] # <<>> /\ stray[1] = r)]
  /\ path = [r \in Ranks |-> "None"]
  /\ files = [r \in Ranks |-> <<>>]
  /\ pc = [r \in Ranks |-> "new"]
  /\ iteration = [r \in Ranks |-> 0]
  /\ needs_broadcast = [r \in Ranks |-> TRUE]
  /\ tmppath = [r \in Ranks |-> <<>>]
  /\ gathered = [r \in Ranks |-> <<>>]
  /\ inbox = [r \in Ranks |-> <<>>]
  /\ file_lists = <<>>
  /\ iters0 = <<>>
  /\ rounds = [r \in Ranks |-> 0]
  /\ finalized = [r \in Ranks |-> 0]
  /\ faults = 0
  /\ CodecParked

\* every rank calls maybe_resume on a directory that may hold a stray file
DirtySpec == InitDirty /\ [][NextResume]_vars


\* ------------------------------------------------------------ checkpoint
\* __call__ (lines 129-134), checkpoint (137-139), _save (278-280): one more
\* trigger of the trainer; the directory is made and mkstemp puts an empty
\* temporary file under a fresh name
Enter(r) ==
  /\ pc[r] = "idle" \/ (pc[r] = "new" /\ ~resume_first)
  /\ iteration[r] < MaxIter
  /\ iteration' = [iteration EXCEPT ![r] = @ + 1]
  /\ path' = [path EXCEPT ![r] = "out"]
  /\ has_dir' = [has_dir EXCEPT ![r] = TRUE]
  /\ UNCHANGED <<config, codec, files, needs_broadcast, comm, rounds, finalized>>

\* a plausible slip: the target is written straight under the final name
TmpIsFinal(r) == Filename(RunName, r, iteration[r] + 1)

\* lines 279-280: the temporary name of the snapshot about to be written
Tmp(r) == FreshTmp(Filename(RunName, r, iteration[r] + 1), DOMAIN disk[r])

\* ... and line 282: save_npz writes the whole target into the temporary file
Call(r) ==
  /\ Enter(r)
  /\ tmppath' = [tmppath EXCEPT ![r] = Tmp(r)]
  /\ disk' = [disk EXCEPT ![r] = With(disk[r], Tmp(r),
                                      <<"new", iteration[r] + 1>>)]
  /\ pc' = [pc EXCEPT ![r] = "save_written"]
  /\ UNCHANGED faults

\* a plausible slip: the except branch re-raises without os.remove
AfterFailedSaveKept(r) == With(disk[r], Tmp(r), <<"partial", 0>>)

\* lines 280-285: the directory after mkstemp, a save_npz that raised part
\* way, and os.remove(tmppath)
AfterFailedSave(r) ==
  Without(With(disk[r], Tmp(r), <<"partial", 0>>), {Tmp(r)})

\* ... and lines 283-286: save_npz raises; the temporary file is closed and
\* removed and the exception leaves checkpoint before anything is appended
CallFail(r) ==
  /\ Enter(r) /\ faults < MaxFaults
  /\ faults' = faults + 1
  /\ pc' = [pc EXCEPT ![r] = "raised"]
  /\ disk' = [disk EXCEPT ![r] = AfterFailedSave(r)]
  /\ UNCHANGED tmppath

\* ... and the process dies while save_npz is writing
CallCrash(r) ==
  /\ Enter(r) /\ faults < MaxFaults
  /\ faults' = faults + 1
  /\ tmppath' = [tmppath EXCEPT ![r] = Tmp(r)]
  /\ disk' = [disk EXCEPT ![r] = With(disk[r], Tmp(r), <<"partial", 0>>)]
  /\ pc' = [pc EXCEPT ![r] = "crashed"]

\* line 145
SyncDue(n) == n - cp_interval > Slack

\* lines 287-288 and 141-147: the rename, self.files.append, and when the
\* list has grown past cp_interval + 5 the gather of a round with removal
SaveMove(r) ==
  LET f == Filename(RunName, r, iteration[r])
      fs == Append(files[r], f)
  IN
  /\ pc[r] = "save_written"
  /\ disk' = [disk EXCEPT ![r] =
                With(Without(disk[r], {tmppath[r]}), f,
                     disk[r][tmppath[r]])]
  /\ tmppath' = [tmppath EXCEPT ![r] = <<>>]
  /\ files' = [files EXCEPT ![r] = fs]
  /\ IF SyncDue(Len(fs))
     THEN /\ Deposit(r, fs)
          /\ pc' = [pc EXCEPT ![r] = "checkpoint_sync"]
     ELSE /\ UNCHANGED gathered
          /\ pc' = [pc EXCEPT ![r] = "idle"]
  /\ UNCHANGED <<config, codec, path, has_dir, iteration, needs_broadcast, inbox,
                 file_lists, iters0, rounds, finalized, faults>>

\* rank 0: the gather returns, lines 168-200 with remove_remainder
CheckpointRoot ==
  /\ pc[0] = "checkpoint_sync" /\ GatherDone
  /\ IF \E k \in 1 .. NRanks : ItersRaise(RunName, Gathered[k])
     THEN /\ pc' = [pc EXCEPT ![0] = "raised"]
          /\ gathered' = [q \in Ranks |-> <<>>]
          /\ UNCHANGED <<config, codec, path, has_dir, disk, files, iteration,
                         needs_broadcast, tmppath, inbox, file_lists, iters0,
                         rounds, finalized, faults>>
     ELSE \E agreed \in {Agreement(RunName, Gathered, cp_interval)} :
            Broadcast(agreed) /\ FinishPruning(0, agreed)

\* another rank: the bcast returns, lines 190-200 with remove_remainder
CheckpointRecv(r) ==
  /\ r # 0 /\ pc[r] = "checkpoint_sync" /\ inbox[r] # <<>>
  /\ Receive(r)
  /\ FinishPruning(r, inbox[r][1])

\* the process dies between save_npz and the rename
Crash(r) ==
  /\ pc[r] = "save_written" /\ faults < MaxFaults
  /\ faults' = faults + 1
  /\ pc' = [pc EXCEPT ![r] = "crashed"]
  /\ UNCHANGED <<config, codec, path, has_dir, disk, files, iteration,
                 needs_broadcast, tmppath, comm, rounds, finalized>>

\* ------------------------------------------------------------ finalize
\* a plausible slip: only the files that could be removed leave the list
FinalFilesKept(r, stuck) == SelectSeq(files[r], LAMBDA f : f \in stuck)

\* line 160
FinalFiles(r, stuck) == <<>>

\* lines 149-160: the assertion, best-effort removal, the list is emptied.
\* The trainer finalizes its extensions when the run ends: after the last
\* iteration, or on the way out of an exception, or before any trigger fired
Finalize(r) ==
  /\ \/ pc[r] \in {"new", "raised", "finalized", "AssertionError"}
     \/ pc[r] = "idle" /\ iteration[r] = MaxIter
  /\ finalized[r] < 2
  /\ finalized' = [finalized EXCEPT ![r] = @ + 1]
  /\ IF path[r] = "None"
     THEN /\ pc' = [pc EXCEPT ![r] = "AssertionError"]
          /\ UNCHANGED <<disk, files, faults>>
     ELSE /\ \E stuck \in SUBSET (Range(files[r]) \cap DOMAIN disk[r]) :
               /\ Cardinality(stuck) <= MaxFaults - faults
               /\ faults' = faults + Cardinality(stuck)
               /\ disk' = [disk EXCEPT ![r] =
                             Without(disk[r], Range(files[r]) \ stuck)]
               /\ files' = [files EXCEPT ![r] = FinalFiles(r, stuck)]
          /\ pc' = [pc EXCEPT ![r] = "finalized"]
  /\ UNCHANGED <<config, codec, path, has_dir, iteration, needs_broadcast, tmppath,
                 comm, rounds>>

\* ------------------------------------------------------------ a whole job
Next ==
  \/ \E r \in Ranks : ResumeBegin(r)
  \/ ResumeRoot
  \/ \E r \in Ranks : ResumeRecv(r)
  \/ \E r \in Ranks : Call(r)
  \/ \E r \in Ranks : CallFail(r)
  \/ \E r \in Ranks : CallCrash(r)
  \/ \E r \in Ranks : SaveMove(r)
  \/ CheckpointRoot
  \/ \E r \in Ranks : CheckpointRecv(r)
  \/ \E r \in Ranks : Crash(r)
  \/ \E r \in Ranks : Finalize(r)

\* the jobs: a fresh start with no path given and no directory yet, with the
\* default gc_interval or the smallest; a fresh start in a given directory
\* that holds snapshots 1 .. MaxDiskIter of an earlier execution; a resume
\* from such a directory
Init ==
  \/ InitWith(1 .. MaxCpInterval, GcChoices, {FALSE}, {TRUE}, {FALSE},
              {[r \in Ranks |-> {0}]})
  \/ InitWith(1 .. MaxCpInterval, {DefaultGc}, {FALSE}, {TRUE}, {TRUE},
              {[r \in Ranks |-> 1 .. MaxDiskIter]})
  \/ InitWith(1 .. MaxCpInterval, {DefaultGc}, {TRUE}, {TRUE}, {FALSE},
              {[r \in Ranks |-> 1 .. MaxDiskIter]})

\* the job: maybe_resume or not, then the trainer's calls, then finalize
Spec == Init /\ [][Next]_vars


\* the job restarted on directories that differ from rank to rank: every
\* rank calls maybe_resume, then the trainer runs
InitRestart ==
  InitWith(1 .. MaxCpInterval, {DefaultGc}, {TRUE}, {TRUE}, {FALSE},
           [Ranks -> DirtyChoices])

RestartSpec == InitRestart /\ [][Next]_vars


\* ------------------------------------------------------------ a run without failures
\* every write succeeds and no process dies; an os.remove may still fail
NextLockstep ==
  \/ \E r \in Ranks : ResumeBegin(r)
  \/ ResumeRoot
  \/ \E r \in Ranks : ResumeRecv(r)
  \/ \E r \in Ranks : Call(r)
  \/ \E r \in Ranks : SaveMove(r)
  \/ CheckpointRoot
  \/ \E r \in Ranks : CheckpointRecv(r)

\* the job keeps running: while some rank can take a step, a step is taken
\* (the trainer calls the extension at every trigger, MPI delivers); as each
\* rank makes MaxIter calls at most, every rank gets its turn
Running == WF_vars(NextLockstep)

\* all ranks start alike and make the same checkpoint calls, all successful
LockstepSpec == Init /\ [][NextLockstep]_vars /\ Running


\* ------------------------------------------------------------ outside hands
\* lines 58-63, 257-259: while a rank waits in the round of maybe_resume,
\* someone removes one of the snapshots it listed
OutsideRemove(r) ==
  /\ pc[r] = "resume_sync" /\ faults < MaxFaults
  /\ \E f \in Range(files[r]) \cap DOMAIN disk[r] :
       disk' = [disk EXCEPT ![r] = Without(disk[r], {f})]
  /\ faults' = faults + 1
  /\ UNCHANGED <<config, codec, path, has_dir, files, pc, iteration,
                 needs_broadcast, tmppath, comm, rounds, finalized>>

\* lines 58-63: or truncates it, so that load_npz fails on it
OutsideTruncate(r) ==
  /\ pc[r] = "resume_sync" /\ faults < MaxFaults
  /\ \E f \in Range(files[r]) \cap DOMAIN disk[r] :
       /\ disk[r][f][1] # "partial"
       /\ disk' = [disk EXCEPT ![r] = With(disk[r], f, <<"partial", 0>>)]
  /\ faults' = faults + 1
  /\ UNCHANGED <<config, codec, path, has_dir, files, pc, iteration,
                 needs_broadcast, tmppath, comm, rounds, finalized>>

NextOutside ==
  \/ NextResume
  \/ \E r \in Ranks : OutsideRemove(r)
  \/ \E r \in Ranks : OutsideTruncate(r)

\* every rank calls maybe_resume while snapshots are removed or damaged
OutsideSpec == InitResume /\ [][NextOutside]_vars


\* ------------------------------------------------------------ a failing gather
\* what file_lists is when the gather gave rank 0 no value at all
NoFileLists == <<"None">>

InSync(r) == pc[r] \in {"resume_sync", "checkpoint_sync"}

\* lines 166-170 and 186-187: the gather returns None on rank 0
GatherNone ==
  /\ InSync(0) /\ faults < MaxFaults
  /\ faults' = faults + 1
  /\ file_lists' = NoFileLists
  /\ pc' = [pc EXCEPT ![0] = "raised"]
  /\ UNCHANGED <<config, codec, path, has_dir, disk, files, iteration,
                 needs_broadcast, tmppath, gathered, inbox, iters0, rounds,
                 finalized>>

\* lines 166-173: the gather returns a list of no ranks on rank 0; self.files
\* is emptied and _sync_file_list returns before the bcast. Back in
\* maybe_resume there is nothing to load (line 253); back in checkpoint
\* there is nothing left to do
GatherEmpty ==
  /\ InSync(0) /\ faults < MaxFaults
  /\ faults' = faults + 1
  /\ file_lists' = <<>>
  /\ files' = [files EXCEPT ![0] = <<>>]
  /\ pc' = [pc EXCEPT ![0] = "idle"]
  /\ UNCHANGED <<config, codec, path, has_dir, disk, iteration,
                 needs_broadcast, tmppath, gathered, inbox, iters0, rounds,
                 finalized>>

NextGatherFault == Next \/ GatherNone \/ GatherEmpty

\* the job on a transport whose gather may fail on rank 0
GatherFaultSpec == Init /\ [][NextGatherFault]_vars


\* ------------------------------------------------------------ properties
MaxOf(S) == CHOOSE x \in S : \A y \in S : y <= x

\* '<name>.<rank>.<iteration>' for every rank and iteration of the model
Snapshot ==
  [q \in Ranks |-> [i \in 0 .. MaxIter |-> Filename(RunName, q, i)]]

\* the iterations every rank named in the lists of the latest round
Common ==
  LET named == [q \in Ranks |-> Range(file_lists[q + 1])]
  IN {i \in 0 .. MaxIter : \A q \in Ranks : Snapshot[q][i] \in named[q]}

\* the iterations a rank holds on disk under its own name
Held(q) ==
  IF has_dir[q]
  THEN LET names == DOMAIN disk[q]
       IN {i \in 0 .. MaxIter : Snapshot[q][i] \in names}
  ELSE {}

\* the iterations every rank holds on disk under its own name
CommonOnDisk ==
  LET held == [q \in Ranks |-> Held(q)]
  IN {i \in 0 .. MaxIter : \A q \in Ranks : i \in held[q]}

AllResumed == \A r \in Ranks : pc[r] = "idle"

\* some rank has returned from maybe_resume
SomeResumed == \E r \in Ranks : pc[r] = "idle"

\* C1: when the window does not cut, the list rank 0 broadcasts holds exactly
\* the iterations that every rank's gathered list names, each once
C1_Intersection ==
  LET common == Common IN
  (file_lists # <<>> /\ Cardinality(common) <= cp_interval) =>
     /\ Range(iters0) = common
     /\ Len(iters0) = Cardinality(common)

\* a round whose lists differ: rank 0 names an iteration another rank lacks
C1_Witness ==
  /\ file_lists # <<>> /\ Common # {} /\ Cardinality(Common) <= cp_interval
  /\ \E i \in 0 .. MaxIter :
       /\ Snapshot[0][i] \in Range(file_lists[1])
       /\ i \notin Common

\* C2: the broadcast list is ascending, holds min(cp_interval, number of
\* common iterations) of the common iterations, and every common iteration
\* left out is smaller than every one kept
C2_Window ==
  LET common == Common IN
  file_lists # <<>> =>
     /\ \A a, b \in 1 .. Len(iters0) : a < b => iters0[a] < iters0[b]
     /\ Range(iters0) \subseteq common
     /\ Len(iters0) = IF Cardinality(common) < cp_interval
                      THEN Cardinality(common) ELSE cp_interval
     /\ \A d \in common \ Range(iters0) : \A k \in Range(iters0) : d < k

\* a round in which the window cut something off
C2_Witness ==
  /\ file_lists # <<>>
  /\ Cardinality(Common) > cp_interval
  /\ Len(iters0) = cp_interval

\* C3: no rank fails in maybe_resume, and a rank that has returned from it
\* holds the state of the newest iteration that every rank has on disk under
\* its own name, if there is one
C3_ResumePoint ==
  LET common == CommonOnDisk
      newest == MaxOf(common)
  IN /\ \A r \in Ranks : pc[r] # "raised"
     /\ (SomeResumed /\ common # {}) =>
           \A r \in Ranks : pc[r] = "idle" => iteration[r] = newest

\* all ranks resumed from an iteration older than one some rank still holds
C3_Witness ==
  LET common == CommonOnDisk
      newest == MaxOf(common)
  IN /\ AllResumed /\ common # {}
     /\ \E q \in Ranks : \E i \in Held(q) : i > newest
     /\ \A r \in Ranks : iteration[r] = newest

\* C4: when some rank holds no snapshot of its own (or has no directory),
\* every rank that returns from maybe_resume tracks nothing, has loaded
\* nothing and has left needs_broadcast as it was
C4_EmptyFallback ==
  ((\E r \in Ranks : pc[r] \in {"idle", "raised"})
     /\ \E q \in Ranks : Held(q) = {}) =>
     \A r \in Ranks :
        /\ pc[r] # "raised"
        /\ pc[r] = "idle" =>
             /\ files[r] = <<>>
             /\ iteration[r] = 0
             /\ needs_broadcast[r]

\* a handle was given, one rank has no directory, another holds snapshots
C4_Witness ==
  /\ AllResumed /\ optimizer
  /\ \E q \in Ranks : ~has_dir[q]
  /\ \E q \in Ranks : Held(q) # {}

\* C8: with a handle and a common iteration on disk, every rank that returns
\* from maybe_resume has set needs_broadcast to False
C8_FlagCleared ==
  (optimizer /\ SomeResumed /\ CommonOnDisk # {}) =>
     \A r \in Ranks : pc[r] = "idle" => ~needs_broadcast[r]

C8_Witness ==
  /\ AllResumed /\ optimizer /\ CommonOnDisk # {}
  /\ \A r \in Ranks : ~needs_broadcast[r] /\ iteration[r] > 0

\* some rank holds an iteration newer than the newest common one
Incomplete ==
  LET common == CommonOnDisk
      newest == MaxOf(common)
  IN /\ common # {}
     /\ \E q \in Ranks : \E i \in Held(q) : i > newest

\* C9 as claimed: after a fall back to an older common iteration the handle
\* still asks for a broadcast
C9_KeepsBroadcast ==
  (optimizer /\ SomeResumed /\ Incomplete) =>
     \A r \in Ranks : pc[r] = "idle" => needs_broadcast[r]

\* C9 amended: after a fall back to an older common iteration every rank has
\* loaded that iteration and set needs_broadcast to False
C9_FallbackClearsFlag ==
  LET newest == MaxOf(CommonOnDisk) IN
  (optimizer /\ SomeResumed /\ Incomplete) =>
     \A r \in Ranks :
        pc[r] = "idle" => ~needs_broadcast[r] /\ iteration[r] = newest

C9_Witness ==
  /\ AllResumed /\ optimizer /\ Incomplete
  /\ \A r \in Ranks : ~needs_broadcast[r]


\* ---- the whole job
HasTmpPrefix(f) == Len(f) >= 4 /\ SubSeq(f, 1, 4) = <<"t", "m", "p", "-">>

\* C5: every file a rank tracks once it has been through a round with
\* removal is on that rank's disk, whole
C5_TrackedOnDisk ==
  \A r \in Ranks :
     rounds[r] >= 1 =>
        \A f \in Range(files[r]) :
           f \in DOMAIN disk[r] /\ disk[r][f][1] # "partial"

\* a rank is back from a round with removal that removed files it had
\* written, and it still tracks some
C5_Witness ==
  \E r \in Ranks :
     /\ pc[r] = "idle" /\ rounds[r] >= 1 /\ files[r] # <<>>
     /\ \E i \in 1 .. iteration[r] :
          Filename(RunName, r, i) \notin DOMAIN disk[r]

\* C6 as claimed, in the form one round decides: once a rank is back from a
\* round with removal, and no os.remove has failed, no snapshot of this run
\* and rank is left on its disk outside the tracked set
C6_OrphansRemoved ==
  \A r \in Ranks :
     (pc[r] = "idle" /\ rounds[r] >= 1 /\ faults = 0) =>
        OwnOnDisk(r) \subseteq Range(files[r])

\* C7: a name that parses as a snapshot of this run never holds a partial
\* write, and holds the state of the iteration it names; whatever is partial
\* carries the tmp- prefix, which does not parse as a snapshot of this run
C7_AtomicWrite ==
  \A r \in Ranks : \A f \in DOMAIN disk[r] :
     LET t == ParseFilename(RunName, f) IN
     /\ t.kind = "tuple" =>
          /\ disk[r][f][1] \in {"old", "new"}
          /\ t.rank = r => disk[r][f][2] = t.iter
     /\ disk[r][f][1] = "partial" => HasTmpPrefix(f) /\ t = NoneT

\* a rank died while writing: the half-written temporary file is there, the
\* final name of that iteration is not
C7_Witness ==
  \E r \in Ranks :
     /\ pc[r] = "crashed"
     /\ tmppath[r] \in DOMAIN disk[r]
     /\ disk[r][tmppath[r]][1] = "partial"
     /\ Filename(RunName, r, iteration[r]) \notin DOMAIN disk[r]

\* C10 as claimed: whenever finalize has been called, once or twice, it
\* returned without an error and the rank tracks nothing
C10_FinalizeAnywhere ==
  \A r \in Ranks :
     finalized[r] >= 1 => pc[r] = "finalized" /\ files[r] = <<>>

\* C10 amended: on a controller whose path is set, finalize returns without
\* an error and leaves nothing tracked, the first time and the second
C10_FinalizeWithPath ==
  \A r \in Ranks :
     (finalized[r] >= 1 /\ path[r] # "None") =>
        pc[r] = "finalized" /\ files[r] = <<>>

\* a second finalize after an os.remove failed: a snapshot this execution
\* wrote is still on disk and nothing is tracked
C10_Witness ==
  \E r \in Ranks :
     /\ finalized[r] = 2 /\ pc[r] = "finalized" /\ faults >= 1
     /\ files[r] = <<>>
     /\ \E f \in OwnOnDisk(r) : disk[r][f][1] = "new"

\* ---- preservation
\* the iterations of which a rank holds a whole file under its own name
CompleteHeld(q) ==
  {i \in Held(q) : disk[q][Snapshot[q][i]][1] # "partial"}

\* the iterations of which every rank holds a whole file
CompleteOnAll ==
  LET held == [q \in Ranks |-> CompleteHeld(q)]
  IN {i \in 0 .. MaxIter : \A q \in Ranks : i \in held[q]}

\* the rank has completed cp_interval checkpoints in this execution: it has
\* been through a round with removal (which takes cp_interval + 6 of them), or
\* that many snapshots it wrote are on its disk
DoneEnough(r) ==
  \/ rounds[r] >= 1
  \/ Cardinality({f \in OwnOnDisk(r) : disk[r][f][1] = "new"}) >= cp_interval

\* no rank has died or left checkpoint by an exception, none has finalized
CrashFree ==
  \A r \in Ranks : pc[r] \notin {"crashed", "raised"} /\ finalized[r] = 0

\* C11: in a crash-free run, once every rank has completed cp_interval
\* checkpoints, at least cp_interval iterations have a whole file on every
\* rank, in every state: between two ranks' removals and during a write too
C11_Preserved ==
  (CrashFree /\ \A r \in Ranks : DoneEnough(r)) =>
     Cardinality(CompleteOnAll) >= cp_interval

\* rank 0 has removed its remainder and is writing the next snapshot while
\* another rank has not yet received the list of the round
C11_Witness ==
  /\ CrashFree /\ \A r \in Ranks : DoneEnough(r)
  /\ rounds[0] = 1 /\ pc[0] = "save_written"
  /\ \E r \in Ranks : pc[r] = "checkpoint_sync" /\ rounds[r] = 0
  /\ \E i \in 1 .. iteration[0] : i \notin Held(0)

\* ---- cadence of the rounds
\* C12 as claimed: gc_interval is the slack of the trigger, so a rank that
\* is back from checkpoint tracks at most cp_interval + gc_interval
\* generations (a longer list would have started a round, which cuts it)
C12_GcCadence ==
  \A r \in Ranks :
     pc[r] = "idle" => ~(Len(files[r]) - cp_interval > gc_interval)

\* ---- the file name codec
\* C13: for a run name without '.', parsing the name _filename produced, on
\* the controller that produced it, gives back (name, rank, iteration)
C13_RoundTrip ==
  (codec_pc = "parsed" /\ "." \notin Range(arg_name)) =>
     parsed = [kind |-> "tuple", name |-> arg_name,
               rank |-> arg_rank, iter |-> arg_iteration]

\* a name made of a digit, a rank and an iteration of two digits that differ
C13_Witness ==
  /\ codec_pc = "parsed" /\ arg_name = <<"7">>
  /\ arg_rank = 10 /\ arg_iteration = 11
  /\ parsed.kind = "tuple" /\ parsed.rank = 10 /\ parsed.iter = 11

\* ---- a failed write
\* the step is a call of checkpoint on rank r that ended in an exception
CheckpointRaised(r) ==
  /\ pc[r] = "idle" \/ (pc[r] = "new" /\ ~resume_first)
  /\ pc'[r] = "raised"

\* C14: a checkpoint whose serialization fails raises and leaves the rank's
\* directory (no temporary file, the final name and every older snapshot as
\* they were), its tracked list and the gather untouched
C14_FailedWriteIntact ==
  [][\A r \in Ranks :
       CheckpointRaised(r) =>
          /\ disk'[r] = disk[r]
          /\ files'[r] = files[r]
          /\ gathered' = gathered /\ inbox' = inbox
          /\ tmppath'[r] = tmppath[r]]_vars

\* a rank whose write failed after it had written snapshots: they are all on
\* disk and tracked, the failed iteration has no file of any name
C14_Witness ==
  \E r \in Ranks :
     /\ pc[r] = "raised" /\ faults = 1 /\ finalized[r] = 0
     /\ Len(files[r]) >= 2
     /\ \A f \in Range(files[r]) : f \in DOMAIN disk[r]
     /\ \A f \in DOMAIN disk[r] :
          ~(HasTmpPrefix(f) /\ disk[r][f][1] = "new")
     /\ Filename(RunName, r, iteration[r]) \notin DOMAIN disk[r]

\* ---- stray files at resume
\* the names of the rank's snapshots on its disk
HeldNames(r) == {Snapshot[r][i] : i \in Held(r)}

\* the rank has listed its directory and not yet received the agreed list
JustListed(r) == pc[r] = "resume_sync"

\* C15 as claimed: whatever stray file a directory holds, maybe_resume
\* raises on no rank and the rank's local list names its snapshots only
C15_StraysIgnored ==
  \A r \in Ranks :
     /\ pc[r] # "raised"
     /\ JustListed(r) => Range(files[r]) = HeldNames(r)

\* the directory holds a name of this run with three fields of which the
\* rank or the iteration is no number
HasBadNumber(r) ==
  has_dir[r] /\ (BadIteration(r) \in DOMAIN disk[r] \/ BadRank \in DOMAIN disk[r])

\* C15 amended: a stray name with another field count or another run's name
\* is skipped, the local list names the rank's snapshots only; a name of
\* this run whose rank or iteration is no number makes maybe_resume raise
\* on that rank before it lists or sends anything
C15_NullsIgnored ==
  \A r \in Ranks :
     /\ ~HasBadNumber(r) =>
          /\ pc[r] # "raised"
          /\ JustListed(r) => Range(files[r]) = HeldNames(r)
     /\ (HasBadNumber(r) /\ pc[r] # "new") =>
          pc[r] = "raised" /\ files[r] = <<>> /\ gathered[r] = <<>>

\* every rank has resumed from a snapshot although one directory holds a
\* stray name of four fields
C15_Witness ==
  /\ AllResumed
  /\ \E r \in Ranks : FourFields(r) \in DOMAIN disk[r]
  /\ \A r \in Ranks : iteration[r] = MaxDiskIter /\ files[r] # <<>>

\* ---- a gather without data
\* C16 as claimed: a step in which rank 0 leaves a round whose gather gave
\* no value, or the lists of no ranks, ends in an exception on rank 0
C16_NoDataFatal ==
  [][(InSync(0) /\ ~InSync(0)' /\ file_lists' \in {NoFileLists, <<>>}) =>
        pc'[0] = "raised"]_vars

\* ---- resume leaves the directories alone
\* C17: no step of maybe_resume, on any rank and any directory contents,
\* removes or adds a file or a directory
C17_ResumeKeepsFiles ==
  [][disk' = disk /\ has_dir' = has_dir]_vars

\* every rank is back from maybe_resume and one of them still holds a
\* snapshot of its own that the round dropped from its tracked list
C17_Witness ==
  /\ AllResumed
  /\ \E r \in Ranks :
       /\ files[r] # <<>>
       /\ \E i \in Held(r) : Snapshot[r][i] \notin Range(files[r])

\* ---- agreement
Ascending(s) == \A a, b \in 1 .. Len(s) : a < b => s[a] < s[b]

\* C18: when a rank returns from a round, of maybe_resume or of checkpoint,
\* its tracked list is '<name>.<own rank>.<i>' for the i of the list rank 0
\* broadcast in that round, in its ascending order, and nothing else
C18_Agreement ==
  [][\A r \in Ranks :
       (InSync(r) /\ pc'[r] = "idle") =>
          /\ Ascending(iters0')
          /\ files'[r] = Filenames(RunName, r, iters0')
          /\ \A k \in 1 .. Len(files'[r]) :
               ParseFilename(RunName, files'[r][k]) =
                  [kind |-> "tuple", name |-> RunName,
                   rank |-> r, iter |-> iters0'[k]]]_vars

\* all ranks are back from a round with removal, which followed a resume
\* from directories that differed, and track the same iterations
C18_Witness ==
  /\ AllResumed /\ iters0 # <<>>
  /\ \A r \in Ranks : rounds[r] = 1 /\ files[r] = Filenames(RunName, r, iters0)
  /\ \E r \in Ranks : Snapshot[r][1] \in DOMAIN disk[r]
  /\ \E r \in Ranks : ~(Snapshot[r][1] \in DOMAIN disk[r])

\* ---- matched collectives
\* rank q is back from the checkpoint call of iteration n
Passed(q, n) == iteration[q] > n \/ (iteration[q] = n /\ pc[q] = "idle")

\* a rank waits in a round that another rank, as many rounds behind it,
\* has walked past
Unmatched ==
  \E r, q \in Ranks :
     /\ pc[r] = "checkpoint_sync"
     /\ rounds[q] = rounds[r]
     /\ Passed(q, iteration[r])

\* C19: when all ranks start alike and every write succeeds, no rank is in a
\* round at a checkpoint call that another rank left without entering the
\* round, and every rank that entered a round leaves it
C19_Matched ==
  /\ [](~Unmatched)
  /\ \A r \in Ranks : InSync(r) ~> (pc[r] = "idle")

\* after a joint resume all ranks have been through the round with removal
\* and the one that was ahead waited for the other
C19_Witness ==
  /\ resume_first /\ AllResumed
  /\ \A r \in Ranks : rounds[r] = 1 /\ iteration[r] = MaxIter

\* ---- no fallback at load
\* rank r leaves the round of maybe_resume in this step
LeavesResume(r) == pc[r] = "resume_sync" /\ pc'[r] # "resume_sync"

\* the snapshot of the greatest agreed iteration is not there, or not whole,
\* on rank r
NewestGone(r, agreed) ==
  /\ agreed # <<>>
  /\ LET f == Filename(RunName, r, MaxOf(Range(agreed)))
     IN ~(f \in DOMAIN disk[r]) \/ disk[r][f][1] = "partial"

\* C20: a rank that finds the snapshot of the greatest agreed iteration
\* missing or unloadable fails in maybe_resume: its iteration stays as it
\* was, no older snapshot being loaded, and its needs_broadcast flag is
\* left alone
C20_NoFallback ==
  [][\A r \in Ranks :
       (LeavesResume(r) /\ NewestGone(r, iters0'))
          => /\ pc'[r] = "raised"
             /\ iteration'[r] = iteration[r]
             /\ needs_broadcast'[r] = needs_broadcast[r]]_vars

\* a rank failed at the load, with the flag a handle would have cleared
\* still set, while an older agreed snapshot is whole in its directory
C20_Witness ==
  \E r \in Ranks :
     /\ pc[r] = "raised" /\ optimizer
     /\ iteration[r] = 0 /\ needs_broadcast[r]
     /\ Len(iters0) > 1
     /\ NewestGone(r, iters0)
     /\ Loadable(r, Filename(RunName, r, iters0[1]))

====
